---- MODULE Spec2Model ----
(***************************************************************************)
(* Heartz Monitor Dashboard (streamlit_app.py).                            *)
(*                                                                         *)
(* A Streamlit script: every user interaction re-runs the script from the  *)
(* top.  A run either stops at the password gate (lines 6-18) or executes  *)
(* main() (lines 82-167): one primary fetch, the rendering of the service  *)
(* list, and a loop of total_endpoints secondary (Kafka lag) fetches.      *)
(*                                                                         *)
(* Python values are modelled as tagged records [t, v]; Python strings are *)
(* sequences of one-character strings, so that str(), lower() and the      *)
(* f-string formatting are computed and not assumed.                       *)
(***************************************************************************)
EXTENDS Integers, Sequences, FiniteSets, TLC

VARIABLES
    authenticated,    \* st.session_state["authenticated"]
    password_input,   \* value of the password text box in the last gate run
    submitted,        \* whether the Submit button fired in the last gate run
    pc,               \* where the current script run is / how it ended
    view_option,      \* main(): sidebar radio value
    data,             \* main(): result of fetch_data(monitor_url)
    services_list,    \* main(): rows of the table view
    kafka_lag_list,   \* main(): lag records
    kafka_debug_info, \* main(): diagnostic entries
    i,                \* main(): next value of the loop variable
    fetched,          \* observation: the fetch_data calls of this run, in order
    prevSentinel,     \* observation: an earlier run recorded a sentinel record
    status,           \* argument of the last get_status_color/emoji call pair
    color,            \* result of get_status_color(status)
    emoji             \* result of get_status_emoji(status)

vars == <<authenticated, password_input, submitted, pc, view_option, data,
          services_list, kafka_lag_list, kafka_debug_info, i, fetched,
          prevSentinel, status, color, emoji>>

mainVars == <<view_option, data, services_list, kafka_lag_list,
              kafka_debug_info, i, fetched, prevSentinel>>

classifyVars == <<status, color, emoji>>

gateVars == <<authenticated, password_input, submitted>>

-----------------------------------------------------------------------------
(* Bounds of the model *)

\* longest string drawn over StatusAlphabet as a classifier input
MaxStrLen == 3

\* most responses of one run that differ from the well-formed payload
MaxDeviations == 2

-----------------------------------------------------------------------------
(* Python values *)

None == [t |-> "none", v |-> <<>>]

JStr(cs) == [t |-> "str", v |-> cs]

JInt(n) == [t |-> "int", v |-> n]

JBool(b) == [t |-> "bool", v |-> b]

JList(xs) == [t |-> "list", v |-> xs]

\* a dict is the ordered sequence of its items <<key, value>>
JDict(items) == [t |-> "dict", v |-> items]

\* bool(x)
Truthy(x) ==
    CASE x.t = "none" -> FALSE
      [] x.t = "bool" -> x.v
      [] x.t = "int"  -> x.v # 0
      [] OTHER        -> Len(x.v) > 0

HasKey(d, key) == \E k \in 1..Len(d.v) : d.v[k][1] = key

\* d.get(key, default) for a dict d
DictGet(d, key, default) ==
    IF HasKey(d, key)
    THEN d.v[CHOOSE k \in 1..Len(d.v) : d.v[k][1] = key][2]
    ELSE default

Digits == <<"0", "1", "2", "3", "4", "5", "6", "7", "8", "9">>

RECURSIVE NatStr(_)
NatStr(n) ==
    IF n < 10 THEN <<Digits[n + 1]>>
    ELSE NatStr(n \div 10) \o <<Digits[(n % 10) + 1]>>

\* str(n) for an int
IntStr(n) == IF n < 0 THEN <<"-">> \o NatStr(0 - n) ELSE NatStr(n)

RECURSIVE Join(_, _)
\* sep.join(parts)
Join(sep, parts) ==
    IF Len(parts) = 0 THEN <<>>
    ELSE IF Len(parts) = 1 THEN parts[1]
    ELSE parts[1] \o sep \o Join(sep, Tail(parts))

RECURSIVE PyStr(_)
RECURSIVE PyRepr(_)
\* str(x)
PyStr(x) ==
    CASE x.t = "str"  -> x.v
      [] x.t = "none" -> <<"N", "o", "n", "e">>
      [] x.t = "bool" -> IF x.v THEN <<"T", "r", "u", "e">>
                                ELSE <<"F", "a", "l", "s", "e">>
      [] x.t = "int"  -> IntStr(x.v)
      [] x.t = "list" ->
            <<"[">> \o Join(<<",", " ">>,
                            [k \in 1..Len(x.v) |-> PyRepr(x.v[k])]) \o <<"]">>
      [] x.t = "dict" ->
            <<"{">> \o Join(<<",", " ">>,
                            [k \in 1..Len(x.v) |->
                                <<"'">> \o x.v[k][1] \o <<"'", ":", " ">>
                                        \o PyRepr(x.v[k][2])]) \o <<"}">>

\* repr(x)
PyRepr(x) == IF x.t = "str" THEN <<"'">> \o x.v \o <<"'">> ELSE PyStr(x)

LowerLetters == <<"a", "b", "c", "d", "e", "f", "g", "h", "i", "j", "k", "l", "m",
                  "n", "o", "p", "q", "r", "s", "t", "u", "v", "w", "x", "y", "z">>

UpperLetters == <<"A", "B", "C", "D", "E", "F", "G", "H", "I", "J", "K", "L", "M",
                  "N", "O", "P", "Q", "R", "S", "T", "U", "V", "W", "X", "Y", "Z">>

LowerChar(c) ==
    IF \E k \in 1..Len(UpperLetters) : UpperLetters[k] = c
    THEN LowerLetters[CHOOSE k \in 1..Len(UpperLetters) : UpperLetters[k] = c]
    ELSE c

\* cs.lower()
PyLower(cs) == [k \in 1..Len(cs) |-> LowerChar(cs[k])]

InList(cs, list) == \E k \in 1..Len(list) : list[k] = cs

-----------------------------------------------------------------------------
(* get_status_color, get_status_emoji (lines 23-50) *)

healthy == <<"h", "e", "a", "l", "t", "h", "y">>

up == <<"u", "p">>

ok == <<"o", "k">>

good == <<"g", "o", "o", "d">>

warning == <<"w", "a", "r", "n", "i", "n", "g">>

degraded == <<"d", "e", "g", "r", "a", "d", "e", "d">>

slow == <<"s", "l", "o", "w">>

down == <<"d", "o", "w", "n">>

fail == <<"f", "a", "i", "l">>

error == <<"e", "r", "r", "o", "r">>

Blue == <<"#", "0", "0", "7", "2", "B", "2">>

Orange == <<"#", "E", "6", "9", "F", "0", "0">>

Vermilion == <<"#", "D", "5", "5", "E", "0", "0">>

Grey == <<"#", "9", "9", "9", "9", "9", "9">>

\* the glyphs, as sequences of code points
CheckMark == <<"U+2705">>

WarningSign == <<"U+26A0", "U+FE0F">>

CrossMark == <<"U+274C">>

InfoSign == <<"U+2139", "U+FE0F">>

\* get_status_color without the lower() of line 28
get_status_color_CaseSensitive(st) ==
    LET s == PyStr(st) IN
    IF InList(s, <<healthy, up, ok, good>>) THEN Blue
    ELSE IF InList(s, <<warning, degraded, slow>>) THEN Orange
    ELSE IF InList(s, <<down, fail, error>>) THEN Vermilion
    ELSE Grey

get_status_color(st) ==
    LET s == PyLower(PyStr(st)) IN
    IF InList(s, <<healthy, up, ok, good>>) THEN Blue
    ELSE IF InList(s, <<warning, degraded, slow>>) THEN Orange
    ELSE IF InList(s, <<down, fail, error>>) THEN Vermilion
    ELSE Grey

\* get_status_emoji with "slow" listed among the critical words
get_status_emoji_SlowCritical(st) ==
    LET s == PyLower(PyStr(st)) IN
    IF InList(s, <<healthy, up, ok, good>>) THEN CheckMark
    ELSE IF InList(s, <<warning, degraded>>) THEN WarningSign
    ELSE IF InList(s, <<down, fail, error, slow>>) THEN CrossMark
    ELSE InfoSign

get_status_emoji(st) ==
    LET s == PyLower(PyStr(st)) IN
    IF InList(s, <<healthy, up, ok, good>>) THEN CheckMark
    ELSE IF InList(s, <<warning, degraded, slow>>) THEN WarningSign
    ELSE IF InList(s, <<down, fail, error>>) THEN CrossMark
    ELSE InfoSign

-----------------------------------------------------------------------------
(* String literals and configuration of the script *)

K_status == <<"s", "t", "a", "t", "u", "s">>

K_results == <<"r", "e", "s", "u", "l", "t", "s">>

K_timestamp == <<"t", "i", "m", "e", "s", "t", "a", "m", "p">>

K_name == <<"n", "a", "m", "e">>

K_description == <<"d", "e", "s", "c", "r", "i", "p", "t", "i", "o", "n">>

K_tags == <<"t", "a", "g", "s">>

K_topic == <<"t", "o", "p", "i", "c">>

K_lag == <<"l", "a", "g">>

S_unknown == <<"u", "n", "k", "n", "o", "w", "n">>

S_Unknown == <<"U", "n", "k", "n", "o", "w", "n">>

S_NA == <<"N", "/", "A">>

S_Error == <<"E", "r", "r", "o", "r">>

S_Unnamed == <<"U", "n", "n", "a", "m", "e", "d", " ", "S", "e", "r", "v", "i", "c", "e">>

S_Endpoint == <<"E", "n", "d", "p", "o", "i", "n", "t", " ">>

S_OK == <<" ", "O", "K">>

S_returned_error == <<" ", "r", "e", "t", "u", "r", "n", "e", "d", " ", "e", "r", "r", "o", "r">>

\* st.secrets["monitor_url"]
monitor_url == <<"h", "t", "t", "p", "s", ":", "/", "/", "m", "/", "h", "e", "a", "l", "t", "h">>

\* st.secrets["kafka_lag_base_url"]
kafka_lag_base_url == <<"h", "t", "t", "p", "s", ":", "/", "/", "k", "/", "l", "a", "g", "/">>

\* st.secrets["password"]
SecretPassword == "s3cret"

total_endpoints == 16

TableView == "Table view"

CardView == "Card view"

-----------------------------------------------------------------------------
(* fetch_data (lines 52-60) *)

\* An outcome of requests.get(url): ok is FALSE when the request, the status
\* check or the JSON decoding raised, and body is the decoded JSON otherwise.
Outcome(isOk, body) == [ok |-> isOk, body |-> body]

fetch_data(out) == IF out.ok THEN out.body ELSE None

-----------------------------------------------------------------------------
(* Rendering of the primary payload (lines 97-130, 62-80) *)

\* ", ".join(x) raises TypeError unless x iterates over strings
Joinable(x) ==
    \/ x.t = "list" /\ \A k \in 1..Len(x.v) : x.v[k].t = "str"
    \/ x.t = "str"
    \/ x.t = "dict"

JoinParts(x) ==
    CASE x.t = "list" -> [k \in 1..Len(x.v) |-> x.v[k].v]
      [] x.t = "str"  -> [k \in 1..Len(x.v) |-> <<x.v[k]>>]
      [] x.t = "dict" -> [k \in 1..Len(x.v) |-> x.v[k][1]]

\* for service in x
Iterable(x) == x.t \in {"list", "str", "dict"}

IterItems(x) ==
    CASE x.t = "list" -> x.v
      [] x.t = "str"  -> [k \in 1..Len(x.v) |-> JStr(<<x.v[k]>>)]
      [] x.t = "dict" -> [k \in 1..Len(x.v) |-> JStr(x.v[k][1])]

\* x or default
OrElse(x, default) == IF Truthy(x) THEN x ELSE default

\* lines 100-102: data.get(...) and overall_status.upper()
OverallRaises(d) ==
    \/ d.t # "dict"
    \/ DictGet(d, K_status, JStr(S_unknown)).t # "str"

\* lines 114-121, one iteration of the table view
TableRowRaises(service) ==
    \/ service.t # "dict"
    \/ ~Joinable(DictGet(service, K_tags, JList(<<>>)))

TableRow(service) ==
    LET st == DictGet(service, K_status, JStr(S_unknown)) IN
    [Name        |-> DictGet(service, K_name, JStr(S_Unnamed)),
     Status      |-> JStr(get_status_emoji(st) \o <<" ">> \o PyStr(st)),
     Description |-> OrElse(DictGet(service, K_description, None), JStr(S_NA)),
     Tags        |-> JStr(Join(<<",", " ">>,
                               JoinParts(DictGet(service, K_tags, JList(<<>>)))))]

\* display_service_card_html (lines 62-80)
CardRaises(service) ==
    \/ service.t # "dict"
    \/ DictGet(service, K_status, JStr(S_unknown)).t # "str"
    \/ LET tags == DictGet(service, K_tags, JList(<<>>)) IN
       Truthy(tags) /\ ~Joinable(tags)

\* lines 109-128
ServicesRaises(d, view) ==
    LET services == DictGet(d, K_results, JList(<<>>)) IN
    /\ Truthy(services)
    /\ \/ ~Iterable(services)
       \/ \E k \in 1..Len(IterItems(services)) :
             IF view = TableView THEN TableRowRaises(IterItems(services)[k])
                                 ELSE CardRaises(IterItems(services)[k])

ServicesTable(d, view) ==
    LET services == DictGet(d, K_results, JList(<<>>)) IN
    IF Truthy(services) /\ view = TableView
    THEN [k \in 1..Len(IterItems(services)) |-> TableRow(IterItems(services)[k])]
    ELSE <<>>

-----------------------------------------------------------------------------
(* Kafka lag loop (lines 132-161) *)

\* line 93 without the early return
PrimaryFailed_Never(d) == FALSE

\* line 93
PrimaryFailed(d) == d = None

\* the lists kept from the previous run instead of being created empty
NewList_Keep(old) == old

\* lines 135-136: kafka_lag_list = [], kafka_debug_info = []
NewList(old) == <<>>

\* a loop that steps by two
NextIndex_Skip(n) == n + 2

\* line 143: the next value of range(1, total_endpoints + 1)
NextIndex(n) == n + 1

\* lines 146-154
LagRecord(n, resp) ==
    IF Truthy(resp)
    THEN [Topic |-> DictGet(resp, K_topic, JStr(S_Unknown)),
          Lag   |-> DictGet(resp, K_lag, JStr(S_NA))]
    ELSE [Topic |-> JStr(S_Endpoint \o IntStr(n)),
          Lag   |-> JStr(S_Error)]

\* lines 149, 153, 155-160
DebugEntry(n, url, resp) ==
    [Endpoint |-> n,
     URL      |-> url,
     Response |-> IF Truthy(resp) THEN resp ELSE JStr(S_Error),
     Message  |-> IF Truthy(resp) THEN S_Endpoint \o IntStr(n) \o S_OK
                                  ELSE S_Endpoint \o IntStr(n) \o S_returned_error]

\* line 147: kafka_response.get(...) on a truthy value that is no dict
LagRaises(resp) == Truthy(resp) /\ resp.t # "dict"

\* a gate that accepts every submitted password
PasswordMatches_Any(input) == TRUE

\* line 13
PasswordMatches(input) == input = SecretPassword

-----------------------------------------------------------------------------
(* Inputs *)

Passwords == {"", "guess", SecretPassword}

Views == {TableView, CardView}

FetchFailure == Outcome(FALSE, None)

WellFormedService ==
    JDict(<< <<K_name, JStr(<<"d", "b">>)>>,
             <<K_status, JStr(<<"D", "O", "W", "N">>)>>,
             <<K_description, JStr(<<"p", "r", "i", "m", "a", "r", "y">>)>>,
             <<K_tags, JList(<<JStr(<<"a">>), JStr(<<"b">>)>>)>> >>)

\* the payload the primary endpoint documents
PrimaryWellFormed ==
    Outcome(TRUE, JDict(<< <<K_status, JStr(<<"O", "K">>)>>,
                           <<K_timestamp, JStr(<<"1", "2", ":", "0", "0">>)>>,
                           <<K_results, JList(<<WellFormedService>>)>> >>))

\* successful primary responses with other payloads
PrimaryDeviations ==
    << Outcome(TRUE, JDict(<<>>)),
       Outcome(TRUE, None),
       Outcome(TRUE, JList(<<JInt(1)>>)),
       Outcome(TRUE, JDict(<< <<K_status, JInt(503)>> >>)),
       Outcome(TRUE, JDict(<< <<K_status, None>> >>)),
       Outcome(TRUE, JDict(<< <<K_status, JStr(degraded)>>,
                              <<K_results, JList(<<JDict(<<>>)>>)>> >>)),
       Outcome(TRUE, JDict(<< <<K_results,
            JList(<<JDict(<< <<K_name, JStr(<<"d", "b">>)>>,
                             <<K_status, JInt(5)>> >>)>>)>> >>)),
       Outcome(TRUE, JDict(<< <<K_results,
            JList(<<JDict(<< <<K_status, JStr(up)>>,
                             <<K_tags, None>> >>)>>)>> >>)),
       Outcome(TRUE, JDict(<< <<K_results, JList(<<JStr(<<"x">>)>>)>> >>)),
       Outcome(TRUE, JDict(<< <<K_results, JInt(5)>> >>)) >>

\* the payload a lag endpoint documents
SecondaryWellFormed ==
    Outcome(TRUE, JDict(<< <<K_topic, JStr(<<"o", "r", "d", "e", "r", "s">>)>>,
                           <<K_lag, JInt(5)>> >>))

\* a failed fetch, and successful responses with other payloads
SecondaryDeviations ==
    << FetchFailure,
       Outcome(TRUE, JDict(<<>>)),
       Outcome(TRUE, JDict(<< <<K_status, JStr(ok)>> >>)),
       Outcome(TRUE, JList(<<JInt(1)>>)) >>

IsWellFormed(call) ==
    IF call.idx = 0 THEN call.out = PrimaryWellFormed
                    ELSE call.out = SecondaryWellFormed

\* the number of calls of this run that did not answer the well-formed payload
Deviations(log) == Cardinality({k \in 1..Len(log) : ~IsWellFormed(log[k])})

PrimaryOutcomes ==
    {FetchFailure, PrimaryWellFormed}
    \cup (IF MaxDeviations > 0
          THEN {PrimaryDeviations[k] : k \in 1..Len(PrimaryDeviations)}
          ELSE {})

SecondaryOutcomes(log) ==
    {SecondaryWellFormed}
    \cup (IF Deviations(log) < MaxDeviations
          THEN {SecondaryDeviations[k] : k \in 1..Len(SecondaryDeviations)}
          ELSE {})

StatusAlphabet == {"o", "k", "O", "K", "u", "P", " "}

RECURSIVE Casings(_)
\* every upper/lower casing of a lower-case word
Casings(word) ==
    IF Len(word) = 0 THEN {<<>>}
    ELSE LET c == Head(word)
             u == IF \E k \in 1..Len(LowerLetters) : LowerLetters[k] = c
                  THEN UpperLetters[CHOOSE k \in 1..Len(LowerLetters) :
                                        LowerLetters[k] = c]
                  ELSE c
         IN {<<x>> \o r : x \in {c, u}, r \in Casings(Tail(word))}

Keywords == {healthy, up, ok, good, warning, degraded, slow, down, fail, error}

StatusStrings ==
    UNION {Casings(w) : w \in Keywords}
    \cup UNION {[1..n -> StatusAlphabet] : n \in 0..MaxStrLen}
    \cup { <<"o", "k", "a", "y">>, <<"n", "o", "t", " ", "o", "k">>,
           <<"f", "a", "i", "l", "e", "d">>, <<"e", "r", "r", "o", "r", "s">>,
           <<"u", "p", "!">>, <<"d", "o", "w", "n", "\n">>,
           S_unknown, <<"n", "o", "n", "e">>, <<"t", "r", "u", "e">> }

StatusInputs ==
    {JStr(cs) : cs \in StatusStrings}
    \cup {None, JBool(TRUE), JBool(FALSE), JInt(0), JInt(1), JInt(-1), JInt(200),
          JList(<<>>), JList(<<JStr(ok)>>), JDict(<<>>),
          JDict(<< <<K_status, JStr(ok)>> >>)}

-----------------------------------------------------------------------------
(* The script *)

Ended == {"idle", "stopped", "returned", "raised", "done"}

HasSentinel(debug) ==
    \E k \in 1..Len(debug) :
        debug[k].Message = S_Endpoint \o IntStr(debug[k].Endpoint) \o S_returned_error

Init ==
    /\ authenticated = FALSE
    /\ password_input = ""
    /\ submitted = FALSE
    /\ pc = "idle"
    /\ view_option = TableView
    /\ data = None
    /\ services_list = <<>>
    /\ kafka_lag_list = <<>>
    /\ kafka_debug_info = <<>>
    /\ i = 0
    /\ fetched = <<>>
    /\ prevSentinel = FALSE
    /\ status = None
    /\ color = <<>>
    /\ emoji = <<>>

\* lines 6-18: a run of the script that starts unauthenticated
PasswordGate(clicked, input) ==
    /\ pc \in Ended
    /\ ~authenticated
    /\ password_input' = input
    /\ submitted' = clicked
    /\ authenticated' = (clicked /\ PasswordMatches(input))
    /\ pc' = "stopped"
    /\ UNCHANGED <<mainVars, classifyVars>>

\* lines 9, 21, 82-141: a run that passes the gate, up to the Kafka loop
\* (a run that returns at line 95 or raises in lines 100-126 never binds
\* services_list, kafka_lag_list and kafka_debug_info: they read <<>> then)
RunMain(view, out) ==
    /\ pc \in Ended
    /\ authenticated
    /\ LET d == fetch_data(out) IN
       /\ view_option' = view
       /\ data' = d
       /\ fetched' = <<[idx |-> 0, url |-> monitor_url, out |-> out]>>
       /\ prevSentinel' = (prevSentinel \/ HasSentinel(kafka_debug_info))
       /\ IF PrimaryFailed(d)
          THEN /\ pc' = "returned"
               /\ services_list' = <<>>
               /\ kafka_lag_list' = <<>>
               /\ kafka_debug_info' = <<>>
               /\ i' = 0
          ELSE IF OverallRaises(d) \/ ServicesRaises(d, view)
          THEN /\ pc' = "raised"
               /\ services_list' = <<>>
               /\ kafka_lag_list' = <<>>
               /\ kafka_debug_info' = <<>>
               /\ i' = 0
          ELSE /\ pc' = "kafka"
               /\ services_list' = ServicesTable(d, view)
               /\ kafka_lag_list' = NewList(kafka_lag_list)
               /\ kafka_debug_info' = NewList(kafka_debug_info)
               /\ i' = 1
    /\ UNCHANGED <<gateVars, classifyVars>>

\* lines 143-161: one iteration of the loop
KafkaStep(out) ==
    /\ pc = "kafka"
    /\ i <= total_endpoints
    /\ LET url_kafka == kafka_lag_base_url \o IntStr(i)
           kafka_response == fetch_data(out)
       IN
       /\ fetched' = Append(fetched, [idx |-> i, url |-> url_kafka, out |-> out])
       /\ IF LagRaises(kafka_response)
          THEN /\ pc' = "raised"
               /\ UNCHANGED <<kafka_lag_list, kafka_debug_info, i>>
          ELSE /\ kafka_lag_list' = Append(kafka_lag_list, LagRecord(i, kafka_response))
               /\ kafka_debug_info' =
                      Append(kafka_debug_info, DebugEntry(i, url_kafka, kafka_response))
               /\ i' = NextIndex(i)
               /\ pc' = pc
    /\ UNCHANGED <<gateVars, classifyVars, view_option, data, services_list,
                   prevSentinel>>

\* lines 163-167: the loop is exhausted, the tables are drawn, main returns
KafkaDone ==
    /\ pc = "kafka"
    /\ i > total_endpoints
    /\ pc' = "done"
    /\ UNCHANGED <<gateVars, classifyVars, mainVars>>

Next ==
    \/ \E clicked \in BOOLEAN, input \in Passwords : PasswordGate(clicked, input)
    \/ \E view \in Views, out \in PrimaryOutcomes : RunMain(view, out)
    \/ \E out \in SecondaryOutcomes(fetched) : KafkaStep(out)
    \/ KafkaDone

Spec == Init /\ [][Next]_vars

\* the classifier is about to be called on one status value
InitClassify ==
    /\ authenticated = FALSE
    /\ password_input = ""
    /\ submitted = FALSE
    /\ pc = "call"
    /\ view_option = TableView
    /\ data = None
    /\ services_list = <<>>
    /\ kafka_lag_list = <<>>
    /\ kafka_debug_info = <<>>
    /\ i = 0
    /\ fetched = <<>>
    /\ prevSentinel = FALSE
    /\ status \in StatusInputs
    /\ color = <<>>
    /\ emoji = <<>>

\* get_status_color(status) and get_status_emoji(status) return
Classify ==
    /\ pc = "call"
    /\ color' = get_status_color(status)
    /\ emoji' = get_status_emoji(status)
    /\ pc' = "classified"
    /\ UNCHANGED <<gateVars, mainVars, status>>

NextClassify == Classify

SpecClassify == InitClassify /\ [][NextClassify]_vars

-----------------------------------------------------------------------------
(* Definitions the claims are stated with: what a run's own fetch outcomes *)
(* produce, and the tiers of the specification                           *)

\* the secondary calls of the run that were recorded (the call did not raise)
Recorded(log) == {k \in 2..Len(log) : ~LagRaises(fetch_data(log[k].out))}

ExpectedLag(log) ==
    [k \in 1..Cardinality(Recorded(log)) |-> LagRecord(k, fetch_data(log[k + 1].out))]

ExpectedDebug(log) ==
    [k \in 1..Cardinality(Recorded(log)) |->
        DebugEntry(k, log[k + 1].url, fetch_data(log[k + 1].out))]

ExpectedServices(log, view) ==
    LET d == fetch_data(log[1].out) IN
    IF PrimaryFailed(d) \/ OverallRaises(d) \/ ServicesRaises(d, view)
    THEN <<>>
    ELSE ServicesTable(d, view)

\* the field of a successful payload, or its default
FieldOrDefault(body, key, default) ==
    IF body.t = "dict" /\ HasKey(body, key) THEN DictGet(body, key, default)
    ELSE default

SameLetter(c, d) ==
    \/ c = d
    \/ \E k \in 1..Len(LowerLetters) :
          {c, d} = {LowerLetters[k], UpperLetters[k]}

EqualsIgnoringCase(a, b) ==
    /\ Len(a) = Len(b)
    /\ \A k \in 1..Len(a) : SameLetter(a[k], b[k])

Tiers == {"Healthy", "Warning", "Critical", "Unknown"}

TierWords(T) ==
    CASE T = "Healthy"  -> {healthy, up, ok, good}
      [] T = "Warning"  -> {warning, degraded, slow}
      [] T = "Critical" -> {down, fail, error}
      [] OTHER          -> {}

TierColor(T) ==
    CASE T = "Healthy"  -> Blue
      [] T = "Warning"  -> Orange
      [] T = "Critical" -> Vermilion
      [] OTHER          -> Grey

TierGlyph(T) ==
    CASE T = "Healthy"  -> CheckMark
      [] T = "Warning"  -> WarningSign
      [] T = "Critical" -> CrossMark
      [] OTHER          -> InfoSign

\* the tier the keyword sets assign to a raw status
ExpectedTier(x) ==
    IF x.t = "str" /\ \E T \in Tiers : \E w \in TierWords(T) : EqualsIgnoringCase(x.v, w)
    THEN CHOOSE T \in Tiers : \E w \in TierWords(T) : EqualsIgnoringCase(x.v, w)
    ELSE "Unknown"

RunEnded == pc \in {"returned", "raised", "done"}

-----------------------------------------------------------------------------
(* Claims *)

\* C1: a run whose primary fetch returned the well-formed payload ends with
\* exactly total_endpoints lag records and total_endpoints diagnostic entries,
\* whatever the secondary fetches answered.
C1_ExactlyNRecords ==
    (RunEnded /\ fetched[1].out = PrimaryWellFormed)
        => /\ Len(kafka_lag_list) = total_endpoints
           /\ Len(kafka_debug_info) = total_endpoints

C3_SentinelIffFailed ==
    \A k \in 1..Len(kafka_lag_list) :
        LET out == fetched[k + 1].out
            sentinel == /\ kafka_lag_list[k] = [Topic |-> JStr(S_Endpoint \o IntStr(k)),
                                                Lag   |-> JStr(S_Error)]
                        /\ kafka_debug_info[k].Message
                               = S_Endpoint \o IntStr(k) \o S_returned_error
        IN /\ sentinel <=> ~out.ok
           /\ out.ok =>
                /\ kafka_lag_list[k] =
                       [Topic |-> FieldOrDefault(out.body, K_topic, JStr(S_Unknown)),
                        Lag   |-> FieldOrDefault(out.body, K_lag, JStr(S_NA))]
                /\ kafka_debug_info[k].Message = S_Endpoint \o IntStr(k) \o S_OK

\* C4: the classifier returns, for every status value, the colour and the glyph
\* of the tier whose keyword set holds the status ignoring case, and those of
\* Unknown for every other value.
C4_ClassifyExact ==
    pc = "classified"
        => /\ color = TierColor(ExpectedTier(status))
           /\ emoji = TierGlyph(ExpectedTier(status))

C4_Witness ==
    /\ pc = "classified"
    /\ status.t = "str"
    /\ status.v # PyLower(status.v)
    /\ ExpectedTier(status) = "Warning"
    /\ color = Orange

\* C5: no run of main() ends by raising.
C5_NeverRaises == pc # "raised"

\* C6: a run that entered the loop ends with a record and a diagnostic at every
\* index j, each determined by the outcome of secondary fetch j alone.
C6_Isolation ==
    (RunEnded /\ Len(fetched) > 1)
        => \A j \in 1..total_endpoints :
              /\ j <= Len(kafka_lag_list)
              /\ j <= Len(kafka_debug_info)
              /\ kafka_lag_list[j] = LagRecord(j, fetch_data(fetched[j + 1].out))
              /\ kafka_debug_info[j].Response
                     = DebugEntry(j, fetched[j + 1].url,
                                  fetch_data(fetched[j + 1].out)).Response

C8_NoMemory ==
    Len(fetched) > 0
        => /\ kafka_lag_list = ExpectedLag(fetched)
           /\ kafka_debug_info = ExpectedDebug(fetched)
           /\ services_list = ExpectedServices(fetched, view_option)

C8_Witness ==
    /\ prevSentinel
    /\ pc = "done"
    /\ Len(kafka_lag_list) = total_endpoints
    /\ ~HasSentinel(kafka_debug_info)

\* C9: the colour and the glyph returned for a status are those of one and the
\* same tier, and the four tiers have four colours and four glyphs.
C9_ColorGlyphSameTier ==
    /\ pc = "classified" => \A T \in Tiers : color = TierColor(T) <=> emoji = TierGlyph(T)
    /\ pc = "classified" => \E T \in Tiers : color = TierColor(T)
    /\ Cardinality({TierColor(T) : T \in Tiers}) = 4
    /\ Cardinality({TierGlyph(T) : T \in Tiers}) = 4

C9_Witness ==
    /\ pc = "classified"
    /\ color = Vermilion
    /\ emoji = CrossMark

\* C10: a run that starts with authenticated = FALSE stops at the gate without
\* fetching or rendering anything; authenticated becomes TRUE only by a submit
\* of the configured password, and never returns to FALSE.
C10_PasswordGate ==
    [][ /\ ~authenticated => (pc' = "stopped" /\ UNCHANGED mainVars)
        /\ authenticated => authenticated'
        /\ (~authenticated /\ authenticated')
              => (submitted' /\ password_input' = SecretPassword) ]_vars

C10_Witness ==
    /\ authenticated
    /\ pc = "stopped"
    /\ submitted
    /\ fetched = <<>>
    /\ data = None

====
